---- MODULE Spec2Model ----
(***************************************************************************)
(* Model of translate_pptx.py: the module-level credential check, main(),  *)
(* load_presentation, translate_text and translate_presentation.           *)
(*                                                                         *)
(* Texts and paths are sequences of one-character strings, so that         *)
(* str.strip() and os.path.splitext() are computed rather than assumed.    *)
(***************************************************************************)
EXTENDS Integers, Sequences, FiniteSets, TLC

VARIABLES
    environ,        \* value of OPENAI_API_KEY in os.environ
    dotenv,         \* the .env file: whether it exists, and the key it sets
    api_key,        \* openai.api_key
    argv,           \* sys.argv
    disk,           \* the file system: a set of <<path, content>> pairs
    input,          \* content of the input file when the process starts
    pc,             \* position of the program
    exit,           \* <<>> while running, <<code>> once the process has ended
    stdout,         \* messages printed on standard output
    stderr,         \* messages printed on standard error
    filesRead,      \* paths whose content the process has read
    loads,          \* number of Presentation objects created
    pass,           \* which call of translate_presentation main() is in
    input_file,     \* main(): input_file
    output_files,   \* main(): <<output_file_fr, output_file_en>>
    presentation,   \* translate_presentation(): presentation
    pos,            \* <<slide_index, shape_index>> of the two for loops
    calls,          \* the calls of translate_text made so far
    saves           \* the paths given to presentation.save so far

vars == <<environ, dotenv, api_key, argv, disk, input, pc, exit, stdout,
          stderr, filesRead, loads, pass, input_file, output_files,
          presentation, pos, calls, saves>>

\* ------------------------------------------------------------------ bounds
MaxSlides == 2          \* slides of a document
MaxShapes == 2          \* shapes of a slide
MaxTotalShapes == 3     \* shapes of a document

\* --------------------------------------------------------------- constants
EmptyStr == <<>>                  \* the empty string
None == <<>>                      \* an optional value: Python's None
Some(v) == <<v>>                  \* an optional value that is set
Key == <<"k">>                    \* a non-empty credential
Unassigned == <<>>                \* a local variable before its assignment

\* What a path may hold.
NoFile == [kind |-> "missing", slides |-> <<>>]
Corrupt == [kind |-> "corrupt", slides |-> <<>>]   \* python-pptx cannot parse it
Pptx(doc) == [kind |-> "pptx", slides |-> doc]

Whitespace == {" "}
Texts == {EmptyStr, <<" ">>, <<"a">>}

\* What the service may answer: message content before .strip().
Responses == {<<" ">>, <<"x", " ">>}
\* The call, or the reading of its response, raises.
Raise == [raises |-> TRUE, content |-> EmptyStr]
Answer(r) == [raises |-> FALSE, content |-> r]
Outcomes == {Raise} \cup {Answer(r) : r \in Responses}

TargetLanguages == <<"French", "English">>
Suffixes == <<<<"_", "f", "r">>, <<"_", "e", "n">>>>

DotenvPath == <<".", "e", "n", "v">>
ProgName == <<"t">>
DeckPath == <<"d", ".", "p">>
InputPaths == {DeckPath, <<"d", ".", "e", ".", "p">>, <<".", "p">>,
               <<"e", ".", "e", "/", "d">>}

\* ------------------------------------------------------------- documents
Shape(frame, text) == [has_text_frame |-> frame, text |-> text]
Shapes == {Shape(FALSE, EmptyStr)} \cup {Shape(TRUE, t) : t \in Texts}

SeqsUpTo(S, n) == UNION {[1..k -> S] : k \in 0..n}
Slides == SeqsUpTo(Shapes, MaxShapes)

RECURSIVE TotalShapes(_)
TotalShapes(doc) == IF doc = <<>> THEN 0 ELSE Len(Head(doc)) + TotalShapes(Tail(doc))

Documents == {d \in SeqsUpTo(Slides, MaxSlides) : TotalShapes(d) <= MaxTotalShapes}

\* A slide with a text and a blank text frame, and a slide with a picture.
SampleDocument ==
    << <<Shape(TRUE, <<"a">>), Shape(TRUE, <<" ">>)>>, <<Shape(FALSE, EmptyStr)>> >>

\* ------------------------------------------------------------ str.strip()
RECURSIVE lstrip(_)
lstrip(s) == IF s # <<>> /\ Head(s) \in Whitespace THEN lstrip(Tail(s)) ELSE s

RECURSIVE rstrip(_)
rstrip(s) ==
    IF s # <<>> /\ s[Len(s)] \in Whitespace
    THEN rstrip(SubSeq(s, 1, Len(s) - 1))
    ELSE s

strip(s) == rstrip(lstrip(s))

\* ---------------------------------------------------- os.path.splitext()
\* rfind, 1-based; 0 when c does not occur (Python: -1 in 0-based terms).
rfind(p, c) ==
    IF \E i \in 1..Len(p) : p[i] = c
    THEN CHOOSE i \in 1..Len(p) : p[i] = c /\ \A j \in (i+1)..Len(p) : p[j] # c
    ELSE 0

\* <<root, ext>>: the extension starts at the last dot of the last path
\* component, unless that component has only dots before it.
splitext(p) ==
    LET sepIndex == rfind(p, "/")
        dotIndex == rfind(p, ".")
    IN  IF /\ dotIndex > sepIndex
           /\ \E i \in (sepIndex + 1)..(dotIndex - 1) : p[i] # "."
        THEN <<SubSeq(p, 1, dotIndex - 1), SubSeq(p, dotIndex, Len(p))>>
        ELSE <<p, <<>>>>

\* Mutant: the suffix goes after the extension.
OutputFileAfterExt(p, n) == p \o Suffixes[n]

OutputFile(p, n) == splitext(p)[1] \o Suffixes[n] \o splitext(p)[2]

\* ----------------------------------------------------------- file system
Exists(p) == \E f \in disk : f[1] = p
ReadFile(p) == IF Exists(p) THEN (CHOOSE f \in disk : f[1] = p)[2] ELSE NoFile
WriteFile(p, c) == {f \in disk : f[1] # p} \cup {<<p, c>>}

\* ------------------------------------------------------ translate_text()
\* Mutant: the except branch returns the empty string.
translate_textNoFallback(text, outcome) ==
    IF outcome.raises THEN EmptyStr ELSE strip(outcome.content)

translate_text(text, outcome) ==
    IF outcome.raises THEN text ELSE strip(outcome.content)

\* ------------------------------------------------- the two nested loops
\* The first shape at or after <<s, h>> in document order, or the position
\* <<Len(doc) + 1, 1>> past the last slide.
RECURSIVE Normalize(_, _, _)
Normalize(doc, s, h) ==
    IF s > Len(doc) THEN <<Len(doc) + 1, 1>>
    ELSE IF h > Len(doc[s]) THEN Normalize(doc, s + 1, 1)
    ELSE <<s, h>>

FirstPos(doc) == Normalize(doc, 1, 1)
\* Mutant: the walk steps over the shape after a visited one.
NextPosSkipping(doc, p) == Normalize(doc, p[1], p[2] + 2)
NextPos(doc, p) == Normalize(doc, p[1], p[2] + 1)
AtEnd(doc, p) == p[1] > Len(doc)
CurShape == presentation[pos[1]][pos[2]]

\* Mutant: the text is written to every shape of the slide.
SetTextWholeSlide(doc, p, t) ==
    [doc EXCEPT ![p[1]] = [h \in 1..Len(@) |-> [@[h] EXCEPT !.text = t]]]

SetText(doc, p, t) ==
    [doc EXCEPT ![p[1]] = [@ EXCEPT ![p[2]] = [@ EXCEPT !.text = t]]]

\* ------------------------------------------------------------------ Init
\* The inputs of a run.  Every environment, .env file and command line is
\* tried with a missing, a corrupt and a sample input file; every document is
\* tried as deck.pptx under an environment that holds the credential.
Dotenvs == {[exists |-> FALSE, key |-> None],
            [exists |-> TRUE, key |-> None],
            [exists |-> TRUE, key |-> Some(Key)]}

InitInputs ==
    \/ /\ environ \in {None, Some(EmptyStr), Some(Key)}
       /\ dotenv \in Dotenvs
       /\ \E p \in InputPaths :
             /\ argv \in {<<ProgName>>, <<ProgName, p>>}
             /\ input \in {NoFile, Corrupt, Pptx(SampleDocument)}
             /\ disk = IF input = NoFile THEN {} ELSE {<<p, input>>}
    \/ /\ environ = Some(Key)
       /\ dotenv = [exists |-> FALSE, key |-> None]
       /\ argv = <<ProgName, DeckPath>>
       /\ input \in {Pptx(d) : d \in Documents}
       /\ disk = {<<DeckPath, input>>}

Init ==
    /\ InitInputs
    /\ api_key = None
    /\ pc = "import"
    /\ exit = <<>>
    /\ stdout = <<>>
    /\ stderr = <<>>
    /\ filesRead = {}
    /\ loads = 0
    /\ pass = 0
    /\ input_file = Unassigned
    /\ output_files = Unassigned
    /\ presentation = Unassigned
    /\ pos = <<1, 1>>
    /\ calls = <<>>
    /\ saves = <<>>

\* --------------------------------------------------------------- actions
SysExit(code, msg) ==
    /\ stdout' = Append(stdout, msg)
    /\ exit' = <<code>>
    /\ pc' = "exited"

\* load_dotenv(); openai.api_key = os.getenv("OPENAI_API_KEY")
LoadDotenv ==
    /\ pc = "import"
    /\ filesRead' = IF dotenv.exists THEN filesRead \cup {DotenvPath} ELSE filesRead
    /\ environ' = IF environ = None THEN dotenv.key ELSE environ
    /\ api_key' = environ'
    /\ pc' = "keycheck"
    /\ UNCHANGED <<dotenv, argv, disk, input, exit, stdout, stderr, loads, pass,
                   input_file, output_files, presentation, pos, calls, saves>>

\* Mutant: only None counts as unset.
FalsyNoneOnly(v) == v = None

Falsy(v) == v = None \/ v = Some(EmptyStr)

\* if not openai.api_key: print(...); sys.exit(1)
KeyMissing ==
    /\ pc = "keycheck"
    /\ Falsy(api_key)
    /\ SysExit(1, "api key not set")
    /\ UNCHANGED <<environ, dotenv, api_key, argv, disk, input, stderr, filesRead,
                   loads, pass, input_file, output_files, presentation, pos,
                   calls, saves>>

KeyPresent ==
    /\ pc = "keycheck"
    /\ ~Falsy(api_key)
    /\ pc' = "main"
    /\ UNCHANGED <<environ, dotenv, api_key, argv, disk, input, exit, stdout,
                   stderr, filesRead, loads, pass, input_file, output_files,
                   presentation, pos, calls, saves>>

\* main(): if len(sys.argv) < 2: print usage; sys.exit(1)
ArgMissing ==
    /\ pc = "main"
    /\ Len(argv) < 2
    /\ SysExit(1, "usage")
    /\ UNCHANGED <<environ, dotenv, api_key, argv, disk, input, stderr, filesRead,
                   loads, pass, input_file, output_files, presentation, pos,
                   calls, saves>>

ArgPresent ==
    /\ pc = "main"
    /\ Len(argv) >= 2
    /\ input_file' = argv[2]
    /\ pc' = "exists"
    /\ UNCHANGED <<environ, dotenv, api_key, argv, disk, input, exit, stdout,
                   stderr, filesRead, loads, pass, output_files, presentation,
                   pos, calls, saves>>

\* main(): if not os.path.exists(input_file): print(...); sys.exit(1)
FileMissing ==
    /\ pc = "exists"
    /\ ~Exists(input_file)
    /\ SysExit(1, "file does not exist")
    /\ UNCHANGED <<environ, dotenv, api_key, argv, disk, input, stderr, filesRead,
                   loads, pass, input_file, output_files, presentation, pos,
                   calls, saves>>

\* main(): the output names, and the start of the French pass
FileExists ==
    /\ pc = "exists"
    /\ Exists(input_file)
    /\ output_files' = <<OutputFile(input_file, 1), OutputFile(input_file, 2)>>
    /\ stdout' = Append(stdout, "starting French")
    /\ pass' = 1
    /\ pc' = "load"
    /\ UNCHANGED <<environ, dotenv, api_key, argv, disk, input, exit, stderr,
                   filesRead, loads, input_file, presentation, pos, calls, saves>>

\* Mutant: every file that exists is taken as a presentation.
ParsesAnyFile(content) == content.kind # "missing"

Parses(content) == content.kind = "pptx"

\* load_presentation(): Presentation(file_path) raises; print(...); sys.exit(1)
LoadFails ==
    /\ pc = "load"
    /\ ~Parses(ReadFile(input_file))
    /\ filesRead' = filesRead \cup {input_file}
    /\ SysExit(1, "error loading file")
    /\ UNCHANGED <<environ, dotenv, api_key, argv, disk, input, stderr, loads,
                   pass, input_file, output_files, presentation, pos, calls,
                   saves>>

\* Mutant: the document is loaded in the first pass only.
LoadPresentationOnce ==
    /\ pc = "load"
    /\ Parses(ReadFile(input_file))
    /\ filesRead' = filesRead \cup {input_file}
    /\ loads' = IF loads = 0 THEN 1 ELSE loads
    /\ presentation' = IF loads = 0 THEN ReadFile(input_file).slides ELSE presentation
    /\ pos' = FirstPos(presentation')
    /\ pc' = IF AtEnd(presentation', pos') THEN "save" ELSE "walk"
    /\ UNCHANGED <<environ, dotenv, api_key, argv, disk, input, exit, stdout,
                   stderr, pass, input_file, output_files, calls, saves>>

\* Mutant: the English pass loads the French output.
LoadPresentationChained ==
    LET file == IF pass = 2 THEN output_files[1] ELSE input_file
    IN  /\ pc = "load"
        /\ Parses(ReadFile(file))
        /\ filesRead' = filesRead \cup {file}
        /\ loads' = loads + 1
        /\ presentation' = ReadFile(file).slides
        /\ pos' = FirstPos(presentation')
        /\ pc' = IF AtEnd(presentation', pos') THEN "save" ELSE "walk"
        /\ UNCHANGED <<environ, dotenv, api_key, argv, disk, input, exit, stdout,
                       stderr, pass, input_file, output_files, calls, saves>>

\* load_presentation() returns; the for loops reach their first shape
LoadPresentation ==
    /\ pc = "load"
    /\ Parses(ReadFile(input_file))
    /\ filesRead' = filesRead \cup {input_file}
    /\ loads' = loads + 1
    /\ presentation' = ReadFile(input_file).slides
    /\ pos' = FirstPos(presentation')
    /\ pc' = IF AtEnd(presentation', pos') THEN "save" ELSE "walk"
    /\ UNCHANGED <<environ, dotenv, api_key, argv, disk, input, exit, stdout,
                   stderr, pass, input_file, output_files, calls, saves>>

Advance(doc) ==
    /\ pos' = NextPos(doc, pos)
    /\ pc' = IF AtEnd(doc, pos') THEN "save" ELSE "walk"

\* Mutant: the test without strip().
IsBlankNoStrip(text) == text = EmptyStr

IsBlank(text) == strip(text) = EmptyStr

\* if not shape.has_text_frame: continue
SkipNoFrame ==
    /\ pc = "walk"
    /\ ~CurShape.has_text_frame
    /\ Advance(presentation)
    /\ UNCHANGED <<environ, dotenv, api_key, argv, disk, input, exit, stdout,
                   stderr, filesRead, loads, pass, input_file, output_files,
                   presentation, calls, saves>>

\* if original_text.strip() == "": continue
SkipBlank ==
    /\ pc = "walk"
    /\ CurShape.has_text_frame
    /\ IsBlank(CurShape.text)
    /\ Advance(presentation)
    /\ UNCHANGED <<environ, dotenv, api_key, argv, disk, input, exit, stdout,
                   stderr, filesRead, loads, pass, input_file, output_files,
                   presentation, calls, saves>>

\* print; translate_text(); shape.text_frame.text = ...; time.sleep(1)
Translate ==
    /\ pc = "walk"
    /\ CurShape.has_text_frame
    /\ ~IsBlank(CurShape.text)
    /\ \E outcome \in Outcomes :
          LET original_text == CurShape.text
              translated_text == translate_text(original_text, outcome)
          IN  /\ calls' = Append(calls, [language |-> TargetLanguages[pass],
                                         pos |-> pos,
                                         text |-> original_text,
                                         outcome |-> outcome,
                                         result |-> translated_text])
              /\ stdout' = IF outcome.raises
                            THEN stdout \o <<"translating", "translation error">>
                            ELSE Append(stdout, "translating")
              /\ presentation' = SetText(presentation, pos, translated_text)
    /\ Advance(presentation')
    /\ UNCHANGED <<environ, dotenv, api_key, argv, disk, input, exit, stderr,
                   filesRead, loads, pass, input_file, output_files, saves>>

\* presentation.save(output_file) returns; main() goes on
Save ==
    /\ pc = "save"
    /\ disk' = WriteFile(output_files[pass], Pptx(presentation))
    /\ saves' = Append(saves, output_files[pass])
    /\ IF pass = 1
       THEN /\ stdout' = stdout \o <<"French saved", "starting English">>
            /\ pass' = 2
            /\ pc' = "load"
            /\ exit' = exit
       ELSE /\ stdout' = Append(stdout, "English saved")
            /\ pass' = pass
            /\ pc' = "done"
            /\ exit' = <<0>>
    /\ UNCHANGED <<environ, dotenv, api_key, argv, input, stderr, filesRead,
                   loads, input_file, output_files, presentation, pos, calls>>

\* Mutant: the exception of presentation.save is caught and main() goes on.
SaveFailsSwallowed ==
    /\ pc = "save"
    /\ disk' = disk
    /\ saves' = Append(saves, output_files[pass])
    /\ stderr' = Append(stderr, "traceback")
    /\ IF pass = 1
       THEN pass' = 2 /\ pc' = "load" /\ exit' = exit
       ELSE pass' = pass /\ pc' = "done" /\ exit' = <<0>>
    /\ UNCHANGED <<environ, dotenv, api_key, argv, input, stdout, filesRead,
                   loads, input_file, output_files, presentation, pos, calls>>

\* presentation.save(output_file) raises: nothing catches it, the interpreter
\* prints the traceback on standard error and exits with status 1.  The
\* file is left untouched or partly written.
SaveFails ==
    /\ pc = "save"
    /\ \/ disk' = disk
       \/ disk' = WriteFile(output_files[pass], Corrupt)
    /\ saves' = Append(saves, output_files[pass])
    /\ stderr' = Append(stderr, "traceback")
    /\ exit' = <<1>>
    /\ pc' = "exited"
    /\ UNCHANGED <<environ, dotenv, api_key, argv, input, stdout, filesRead,
                   loads, pass, input_file, output_files, presentation, pos,
                   calls>>

Next ==
    \/ LoadDotenv
    \/ KeyMissing
    \/ KeyPresent
    \/ ArgMissing
    \/ ArgPresent
    \/ FileMissing
    \/ FileExists
    \/ LoadFails
    \/ LoadPresentation
    \/ SkipNoFrame
    \/ SkipBlank
    \/ Translate
    \/ Save
    \/ SaveFails

Spec == Init /\ [][Next]_vars

\* ============================================================== properties
Last(s) == s[Len(s)]
Range(s) == {s[i] : i \in 1..Len(s)}
AllWhitespace(t) == \A i \in 1..Len(t) : t[i] \in Whitespace
ShapeAt(doc, p) == doc[p[1]][p[2]]
InputSlides == input.slides
Translatable(sh) == sh.has_text_frame /\ ~AllWhitespace(sh.text)

\* p comes before q in document order
Before(p, q) == p[1] < q[1] \/ (p[1] = q[1] /\ p[2] < q[2])

\* every position of a document, slide by slide and shape by shape
RECURSIVE PositionsFrom(_, _)
PositionsFrom(doc, s) ==
    IF s > Len(doc) THEN <<>>
    ELSE [h \in 1..Len(doc[s]) |-> <<s, h>>] \o PositionsFrom(doc, s + 1)

AllPositions(doc) == PositionsFrom(doc, 1)
Units(doc) == SelectSeq(AllPositions(doc), LAMBDA p : Translatable(ShapeAt(doc, p)))
UnitsBefore(doc, q) == SelectSeq(Units(doc), LAMBDA p : Before(p, q))

PassCalls(n) == SelectSeq(calls, LAMBDA c : c.language = TargetLanguages[n])
Positions(cs) == [i \in 1..Len(cs) |-> cs[i].pos]

SaveRaised == stderr # <<>>
PassWalking(n) == pass = n /\ pc = "walk"
PassFinished(n) ==
    \/ pass > n
    \/ pass = n /\ pc \in {"save", "done"}
    \/ pass = n /\ pc = "exited" /\ SaveRaised
Loaded == pass >= 1 /\ (pc \in {"walk", "save", "done"} \/ PassFinished(pass))

\* doc has the slides and shapes of orig, and differs from it only in the
\* text of shapes that have a non-blank text frame in orig
OnlyTextsChanged(doc, orig) ==
    /\ Len(doc) = Len(orig)
    /\ \A s \in 1..Len(orig) :
          /\ Len(doc[s]) = Len(orig[s])
          /\ \A h \in 1..Len(orig[s]) :
                /\ doc[s][h].has_text_frame = orig[s][h].has_text_frame
                /\ doc[s][h] # orig[s][h] => Translatable(orig[s][h])

\* C1 (skip invariant): no call of translate_text is ever made for a shape
\* without a text frame, or whose text is empty or only whitespace.
C1_SkipInvariant ==
    \A i \in 1..Len(calls) :
        /\ ~AllWhitespace(calls[i].text)
        /\ Translatable(ShapeAt(InputSlides, calls[i].pos))

C1_Witness ==
    /\ pc = "done"
    /\ calls # <<>>
    /\ \E p \in Range(AllPositions(InputSlides)) :
          ~ShapeAt(InputSlides, p).has_text_frame
    /\ \E p \in Range(AllPositions(InputSlides)) :
          /\ ShapeAt(InputSlides, p).has_text_frame
          /\ ShapeAt(InputSlides, p).text # EmptyStr
          /\ AllWhitespace(ShapeAt(InputSlides, p).text)

\* C2 (fallback invariant): a step in which the translation call fails
\* returns the text it was given, leaves the text frame with the text that was
\* read from it, and moves the walk to the next shape (or to the save) without
\* ending the process.
C2_Step ==
    (Len(calls') = Len(calls) + 1 /\ Last(calls').outcome.raises) =>
        LET later == SelectSeq(AllPositions(presentation), LAMBDA q : Before(pos, q))
        IN  /\ Last(calls').text = CurShape.text
            /\ Last(calls').result = CurShape.text
            /\ presentation' = presentation
            /\ exit' = <<>>
            /\ IF later = <<>> THEN pc' = "save"
                               ELSE pc' = "walk" /\ pos' = later[1]

C2_Fallback == [][C2_Step]_vars

C2_Witness ==
    /\ pc = "walk"
    /\ calls # <<>>
    /\ Last(calls).outcome.raises
    /\ Last(calls).text = <<"a">>

\* C3 (structure preservation): the document in memory and every document
\* on disk have the slides and shapes of the input, in the same order; only
\* texts of non-blank text frames differ.
C3_StructurePreserved ==
    /\ Loaded => OnlyTextsChanged(presentation, InputSlides)
    /\ \A f \in disk : f[2].kind = "pptx" => OnlyTextsChanged(f[2].slides, InputSlides)

C3_Witness ==
    /\ pc = "done"
    /\ Len(InputSlides) = 2
    /\ \E f \in disk : f[2].kind = "pptx" /\ f[2].slides # InputSlides
    /\ \E p \in Range(AllPositions(InputSlides)) : ~Translatable(ShapeAt(InputSlides, p))

\* C4 (call count and order): in each language pass the calls made so far
\* are exactly the non-blank text units of the input that the walk has
\* passed, once each and in document order; every result of the current
\* pass is already in the document.
C4_CallsOncePerUnitInOrder ==
    \A n \in 1..2 :
        /\ Positions(PassCalls(n)) =
              IF PassFinished(n) THEN Units(InputSlides)
              ELSE IF PassWalking(n) THEN UnitsBefore(InputSlides, pos)
              ELSE <<>>
        /\ (pass = n /\ pc \in {"walk", "save"}) =>
              \A i \in 1..Len(PassCalls(n)) :
                  ShapeAt(presentation, PassCalls(n)[i].pos).text = PassCalls(n)[i].result

C4_Witness ==
    /\ pc = "done"
    /\ Len(PassCalls(1)) = 3
    /\ Len(PassCalls(2)) = 3
    /\ Len(InputSlides) = 2

\* The path the command line names, and the paths on disk besides it.
ArgPath == IF Len(argv) >= 2 THEN argv[2] ELSE <<>>
OtherPaths == {f[1] : f \in disk} \ {ArgPath}

\* p reads name.ext: a last dot that follows a character of the file name
\* and is followed by an extension without dot or separator
DotOfExt(p, i) ==
    /\ i \in 2..(Len(p) - 1)
    /\ p[i] = "."
    /\ p[i - 1] \notin {".", "/"}
    /\ \A j \in (i + 1)..Len(p) : p[j] \notin {".", "/"}
HasNameExt(p) == \E i \in 1..Len(p) : DotOfExt(p, i)
NameExtOutput(p, suffix) ==
    LET i == CHOOSE k \in 1..Len(p) : DotOfExt(p, k)
    IN  SubSeq(p, 1, i - 1) \o suffix \o <<".">> \o SubSeq(p, i + 1, Len(p))

\* C5 (output files): a run that ends normally has written name_fr.ext and
\* name_en.ext and nothing else, the French file first; the English pass
\* starts only with the French file on disk; a file is on disk only once its
\* pass has called the service for every unit; the input file keeps its
\* content.
C5_OutputFiles ==
    /\ \A f \in disk : f[1] \in InputPaths => f[2] = input
    /\ Len(argv) >= 2 => \A i \in 1..Len(saves) : saves[i] # ArgPath
    /\ pc = "done" =>
          /\ OtherPaths = {output_files[1], output_files[2]}
          /\ Cardinality(OtherPaths) = 2
          /\ saves = output_files
          /\ \A n \in 1..2 : ReadFile(output_files[n]).kind = "pptx"
          /\ HasNameExt(ArgPath) =>
                output_files = <<NameExtOutput(ArgPath, <<"_", "f", "r">>),
                                 NameExtOutput(ArgPath, <<"_", "e", "n">>)>>
    /\ pass = 2 =>
          /\ saves # <<>>
          /\ saves[1] = output_files[1]
          /\ ReadFile(output_files[1]).kind = "pptx"
    /\ pass >= 1 =>
          \A n \in 1..2 :
              Exists(output_files[n]) =>
                  /\ PassFinished(n)
                  /\ Len(saves) >= n
                  /\ Len(PassCalls(n)) = Len(Units(InputSlides))

C5_Witness ==
    /\ pc = "done"
    /\ ArgPath = <<"d", ".", "e", ".", "p">>
    /\ Exists(<<"d", ".", "e", "_", "f", "r", ".", "p">>)
    /\ Exists(<<"d", ".", "e", "_", "e", "n", ".", "p">>)
    /\ calls # <<>>

NothingDoneYet ==
    /\ loads = 0
    /\ calls = <<>>
    /\ saves = <<>>
    /\ disk = (IF input = NoFile THEN {} ELSE {f \in disk : f[2] = input})
    /\ Cardinality(disk) <= 1

KeyUnset == api_key = None \/ api_key = Some(EmptyStr)
CredentialMissing == pc # "import" /\ KeyUnset

\* C6 as stated: with the credential missing the process exits with code 1
\* having read no file at all, the .env file included.
C6_NoFileReadAtAll ==
    CredentialMissing =>
        /\ pc = "exited" => exit = <<1>>
        /\ filesRead = {}
        /\ NothingDoneYet

\* C6 (amended): with the credential missing once load_dotenv has run, the
\* process exits with code 1 straight after the check; it has read no file
\* but the .env file, has not loaded the input document, has made no
\* translation call and has written no file.
C6_ExitBeforeDocumentIO ==
    CredentialMissing =>
        /\ pc \in {"keycheck", "exited"}
        /\ pc = "exited" => exit = <<1>> /\ stdout = <<"api key not set">>
        /\ filesRead \subseteq {DotenvPath}
        /\ NothingDoneYet

C6_Witness ==
    /\ pc = "exited"
    /\ KeyUnset
    /\ dotenv.exists
    /\ filesRead = {DotenvPath}
    /\ Len(argv) >= 2
    /\ input.kind = "pptx"

\* The first check that fails, in the order credential, argument, file
\* existence, document parse.
NoFailure == "none"
ExpectedFailure ==
    IF KeyUnset THEN "api key not set"
    ELSE IF Len(argv) < 2 THEN "usage"
    ELSE IF input = NoFile THEN "file does not exist"
    ELSE IF input = Corrupt THEN "error loading file"
    ELSE NoFailure

\* C7 (fatal input errors): a missing argument, a missing file and an
\* unparsable document each end the process with code 1 after their message on
\* standard output, without a translation call or a saved file; the first
\* failing check in the order credential, argument, existence, parse decides.
C7_FatalInputErrors ==
    pc # "import" =>
        /\ (pc = "exited" /\ ~SaveRaised) =>
              /\ ExpectedFailure # NoFailure
              /\ Last(stdout) = ExpectedFailure
              /\ exit = <<1>>
              /\ calls = <<>>
              /\ saves = <<>>
              /\ {f[1] : f \in disk} \subseteq InputPaths
        /\ pc \in {"main", "exists", "load", "walk", "save", "done"} =>
              ExpectedFailure \notin {"api key not set"}
        /\ pc \in {"exists", "load", "walk", "save", "done"} =>
              ExpectedFailure \notin {"api key not set", "usage"}
        /\ pc \in {"load", "walk", "save", "done"} =>
              ExpectedFailure \in {"error loading file", NoFailure}
        /\ (pc \in {"walk", "save", "done"} \/ SaveRaised) =>
              ExpectedFailure = NoFailure

C7_Witness ==
    /\ pc = "exited"
    /\ input = Corrupt
    /\ Last(stdout) = "error loading file"
    /\ filesRead = {ArgPath}

\* C8 (save failure is fatal): when presentation.save raises, the process
\* ends with code 1 in that pass; after a failed French save there is no
\* English load, call or file.
C8_SaveFailureFatal ==
    SaveRaised =>
        /\ pc = "exited"
        /\ exit = <<1>>
        /\ Len(saves) = pass
        /\ Last(saves) = output_files[pass]
        /\ loads = pass
        /\ pass = 1 =>
              /\ PassCalls(2) = <<>>
              /\ ~Exists(output_files[2])
              /\ "starting English" \notin Range(stdout)

C8_Witness ==
    /\ SaveRaised
    /\ pass = 1
    /\ calls # <<>>
    /\ ReadFile(output_files[1]) = Corrupt

\* C9 as stated: a whole run loads the input file exactly once.
C9_SingleLoad == pc = "done" => loads = 1

\* C9 (amended): the driver loads the input file once per target language,
\* at the start of each pass: one Presentation object per pass that has
\* begun its walk, two in a run that ends normally, each walked from the
\* texts of the input file.
C9_LoadPerPass ==
    /\ pc = "done" => loads = 2
    /\ pass >= 1 => loads = (IF pc = "load" \/ (pc = "exited" /\ ~SaveRaised)
                             THEN pass - 1 ELSE pass)
    /\ pass = 0 => loads = 0
    /\ (pass >= 1 /\ pc \in {"walk", "save"}) =>
          \A p \in Range(AllPositions(InputSlides)) :
              \/ ShapeAt(presentation, p) = ShapeAt(InputSlides, p)
              \/ \E i \in 1..Len(PassCalls(pass)) : PassCalls(pass)[i].pos = p

C9_Witness ==
    /\ pc = "done"
    /\ loads = 2
    /\ Len(calls) >= 2
    /\ ReadFile(output_files[1]) # ReadFile(output_files[2])

\* C10 (pass independence): every text given to the service in the English
\* pass is the input document's text at that position; the units of the
\* English pass are the units of the input, and name_en.ext holds, for each
\* of them, what the English call made of the input text, and the input's
\* shape everywhere else.
C10_PassIndependence ==
    /\ \A i \in 1..Len(calls) :
          calls[i].language = "English" =>
              calls[i].text = ShapeAt(InputSlides, calls[i].pos).text
    /\ pc = "done" =>
          LET en == ReadFile(output_files[2]).slides
              ec == PassCalls(2)
          IN  /\ Positions(ec) = Units(InputSlides)
              /\ AllPositions(en) = AllPositions(InputSlides)
              /\ \A p \in Range(AllPositions(InputSlides)) :
                    IF \E i \in 1..Len(ec) : ec[i].pos = p
                    THEN \A i \in 1..Len(ec) :
                            ec[i].pos = p =>
                                ShapeAt(en, p) =
                                    Shape(TRUE, translate_text(ShapeAt(InputSlides, p).text,
                                                               ec[i].outcome))
                    ELSE ShapeAt(en, p) = ShapeAt(InputSlides, p)

C10_Witness ==
    /\ pc = "done"
    /\ \E i, j, k \in 1..Len(calls) :
          /\ calls[i].language = "French" /\ calls[i].result = EmptyStr
          /\ calls[j].language = "French" /\ calls[j].result = <<"x">>
          /\ calls[k].language = "French" /\ calls[k].outcome.raises
    /\ Len(PassCalls(2)) = 3

====
